---- MODULE Spec2Model ----
(***************************************************************************)
(* The loop controller of agent-loop (src/agent_loop/loop.py): one         *)
(* LoopRunner built by run_loop and its single run() call, together with   *)
(* the repository it commits to, the agent it invokes and the SIGINT       *)
(* handler it installs.                                                    *)
(*                                                                         *)
(* Granularity.  A Python-level signal handler runs at the interpreter's   *)
(* pending-call checks (a call, a function entry, a loop back edge), so    *)
(* the model has one state per such point of run(): the loop head, the     *)
(* entry of _run_iteration, the agent call, the commit, the return, and    *)
(* the steps of the squash.  The handler itself is one atomic action.      *)
(***************************************************************************)
EXTENDS Naturals, Integers, Sequences, FiniteSets, TLC

\* ------------------------------------------------------------ bounds ----
\* Longest preset mode list explored.
MaxModes == 2
\* Iterations explored in a run that has no effective iteration limit.
MaxIterations == 3
\* Largest --max-iterations value explored (0 is included).
MaxLimit == 2
\* Largest number of commits in the repository the squash command starts in.
MaxCommits == 2
\* Largest number of tokens the message agent writes to its standard output.
MaxOutput == 5

\* --------------------------------------------------------- constants ----
\* `None' of an optional integer or revision.
None == -1
\* Threshold of test_stops_after_max_consecutive_failures.
TestMaxConsecutiveFailures == 2
\* Number of modes of the preset of test_review_runs_after_completing_cycle.
TestReviewModes == 2

VARIABLES
    \* -- the preset and the options of run_loop (fixed for a run)
    nmodes,            \* len(preset.modes)
    bad_mode,          \* 0-based index of a mode whose prompt has a placeholder
                       \* other than {files}, or None
    dry_run,
    auto_squash,
    max_iterations,    \* None or an integer
    commit_message_template,   \* preset.settings.commit_message_template
    \* -- LoopRunner
    iteration,         \* self.iteration
    start_commit,      \* self.start_commit
    interrupted,       \* self._interrupted
    \* -- position in run() and locals
    pc,
    mode_idx,          \* local of _run_iteration
    success,           \* local of _run_iteration
    result,            \* what the last _run_iteration returned: "continue"
                       \* (True), "stop" (False), or "none" before the first
    original_handler,  \* local of run()
    \* -- process and environment
    handler,           \* the installed SIGINT handler
    in_repo,           \* the working directory is inside a git repository
    head,              \* revision id of HEAD
    created,           \* number of commits created so far (source of fresh ids)
    log,               \* messages of the commits from the start revision to HEAD
    dirty,             \* uncommitted changes (staged, unstaged or untracked)
    head_tree,         \* number of agent edits contained in the tree of HEAD
    work_tree,         \* number of agent edits present in the working tree
    \* -- history
    calls,             \* the run_opencode calls made:
                       \* <<[kind, mode, n, outcome, eff, ok], ...>>
    returned,          \* number of _run_iteration calls that returned
    squash_invoked,    \* _do_squash was called
    signals,           \* the SIGINTs handled: <<[handler, pc, iteration], ...>>
    \* -- the squash command of the command line
    since,             \* --since: a revision id, or None outside the command
    cli_message,       \* --message: {} when not given, {m} when given
    no_agent,          \* --no-agent
    message,           \* local of squash(): {} is None, {m} is the string m
    generation,        \* the message agent's runs: <<[outcome, stdout]>>
    \* -- the preset
    doc,               \* the preset file the run command is given
    settings_model,    \* preset.settings.model: {} is None, {m} the name m
    modes,             \* the prompts of preset.modes, in order
    \* -- the review prompt
    config,            \* the ReviewConfig handed to build_review_prompt
    review_prompt,     \* what build_review_prompt returned, << >> before
    \* -- the agent command
    cmd                \* the command run_opencode handed to subprocess.run

cfg  == <<nmodes, bad_mode, dry_run, auto_squash, max_iterations,
          commit_message_template, in_repo, settings_model, modes>>
aux  == <<doc, config, review_prompt, cmd>>
repo == <<head, created, log, dirty, head_tree, work_tree>>
cli  == <<since, cli_message, no_agent, message, generation>>
loop == <<iteration, start_commit, interrupted, mode_idx, success, result,
          original_handler, handler>>
vars == <<nmodes, bad_mode, dry_run, auto_squash, max_iterations,
          commit_message_template,
          iteration, start_commit, interrupted, pc, mode_idx, success, result,
          original_handler, handler, in_repo, head, created, log, dirty,
          head_tree, work_tree,
          calls, returned, squash_invoked, signals,
          since, cli_message, no_agent, message, generation,
          doc, settings_model, modes, config, review_prompt, cmd>>
hist == <<calls, returned, squash_invoked, signals>>

\* Handlers a caller may have installed for SIGINT before run().
PriorHandlers == {"default_int_handler", "SIG_IGN"}

\* What one agent process does to the working tree.
AgentEffects == {"none", "edit", "commit"}

\* How the agent process can end: exit code 0, another exit code, or the
\* opencode executable is not found (subprocess.run raises FileNotFoundError).
AgentOutcomes == {"exit0", "exit_nonzero", "not_found"}

\* Mode names of the preset, by 0-based position in preset.modes.
ModeName(i) == <<"accuracy", "clarity", "style", "tone", "structure">>[i + 1]

\* preset.name
PresetName == "test"

\* Settings.commit_message_template: a string is a sequence of pieces, the
\* placeholders {mode} and {n} being pieces of their own.
DefaultTemplate == <<"[", "{mode}", "] iteration ", "{n}">>

\* Templates a preset may set: the default and one of its own.
Templates == {DefaultTemplate, <<"{n}", ": ", "{mode}", " pass">>}

\* Mutant of Format: the two keyword arguments are exchanged.
FormatSwapped(template, name, n) ==
    [i \in 1..Len(template) |->
        IF template[i] = "{mode}" THEN ToString(n)
        ELSE IF template[i] = "{n}" THEN name
        ELSE template[i]]

\* template.format(mode=name, n=n)
Format(template, name, n) ==
    [i \in 1..Len(template) |->
        IF template[i] = "{mode}" THEN name
        ELSE IF template[i] = "{n}" THEN ToString(n)
        ELSE template[i]]

\* A commit message: the per-iteration template filled in, the squash
\* message of _do_squash, or a message written by the agent itself.
IterationMessage(m, n) == Format(commit_message_template, ModeName(m), n)
SquashMessage(n) ==
    <<"[agent-loop] ", PresetName, ": ", ToString(n), " iterations">>
AgentMessage == <<"agent commit">>

\* Python truthiness of an optional integer: None and 0 are false.
Truthy(x) == x # None /\ x # 0

\* A text (a prompt, a commit message) is a sequence of tokens: NL is the
\* line break, "{files}" and "{other}" are replacement fields of str.format,
\* every other token is text without white space around it.
NL == "\n"
\* file_list of _format_prompt for the two files resolve_files finds.
FileList == <<"- ", "a.md", NL, "- ", "b.md">>
\* A mode prompt with the field the loop fills in, and one with a field it
\* has no value for.
GoodPrompt == <<"Check.", NL, "{files}">>
BadPrompt == <<"Check.", NL, "{other}">>

RECURSIVE Substitute(_)
Substitute(text) ==
    IF text = << >> THEN << >>
    ELSE (IF Head(text) = "{files}" THEN FileList ELSE <<Head(text)>>)
            \o Substitute(Tail(text))

\* mode_prompt.format(files=file_list): the text with every {files} field
\* replaced, or a KeyError for a field of another name.
FormatPrompt(mode_prompt) ==
    [raised |-> \E i \in 1..Len(mode_prompt) : mode_prompt[i] = "{other}",
     value  |-> Substitute(mode_prompt)]

\* The prompts of a preset of n modes whose mode of index bad (if any) has
\* the field without a value.
PromptsOf(n, bad) ==
    [i \in 1..n |-> IF i - 1 = bad THEN BadPrompt ELSE GoodPrompt]

\* No preset file: the preset was built by the caller of run_loop.
NoDoc ==
    [exists |-> FALSE, mapping |-> FALSE, has_name |-> FALSE,
     has_modes |-> FALSE, modes |-> << >>, model |-> {},
     prompt_prefix |-> {}, prompt_suffix |-> {}]

\* The ReviewConfig with nothing set.
NoConfig ==
    [check_prompt |-> << >>, filter_prompt |-> << >>, fix_prompt |-> {},
     scope_globs |-> {}]

\* No command: subprocess.run has not been called.
NoCmd == [program |-> << >>, prompt |-> << >>, options |-> << >>]

\* Mutant of ModeIndex: the index stops at the last mode instead of wrapping.
ModeIndexClamped(i, n) == IF i < n THEN i ELSE n - 1

\* mode_idx = self.iteration % len(self.preset.modes)
ModeIndex(i, n) == i % n

\* Length of the run of failed agent calls that ends the call history.
RECURSIVE FailRun(_)
FailRun(cs) ==
    IF cs = << >> THEN 0
    ELSE IF cs[Len(cs)].ok THEN 0
    ELSE 1 + FailRun(SubSeq(cs, 1, Len(cs) - 1))

\* LoopRunner keeps no count of consecutive failures: __init__ creates no
\* such attribute and _run_iteration only logs a failed result.
consecutive_failures == None

Init ==
    /\ nmodes \in 1..MaxModes
    /\ bad_mode \in {None} \cup (0..(nmodes - 1))
    /\ dry_run \in BOOLEAN
    /\ auto_squash \in BOOLEAN
    /\ max_iterations \in {None} \cup (0..MaxLimit)
    /\ commit_message_template \in Templates
    /\ in_repo \in BOOLEAN
    /\ iteration = 0
    /\ start_commit = None
    /\ interrupted = FALSE
    /\ pc = "idle"
    /\ mode_idx = None
    /\ success = TRUE
    /\ result = "none"
    /\ original_handler = "unset"
    /\ handler \in PriorHandlers
    /\ head = 0
    /\ created = 0
    /\ log = << >>
    /\ dirty = FALSE
    /\ head_tree = 0
    /\ work_tree = 0
    /\ calls = << >>
    /\ returned = 0
    /\ squash_invoked = FALSE
    /\ signals = << >>
    /\ since = None
    /\ cli_message = {}
    /\ no_agent = FALSE
    /\ message = {}
    /\ generation = << >>
    /\ doc = NoDoc
    /\ settings_model = {}
    /\ modes = PromptsOf(nmodes, bad_mode)
    /\ config = NoConfig
    /\ review_prompt = << >>
    /\ cmd = NoCmd

\* Mutant of LeaveTry: the handler is put back after the loop rather than in
\* a finally clause, so only the normal exit restores it.
LeaveTryNoFinally(target) ==
    /\ handler' = IF target = "finalize" THEN original_handler ELSE handler
    /\ pc' = target

\* The finally clause of run(): signal.signal(SIGINT, original_handler),
\* after which control goes on to `target'.
LeaveTry(target) ==
    /\ handler' = original_handler
    /\ pc' = target

\* Mutant of RunStart: a missing repository is not noticed at the start.
RunStartNoRepoCheck ==
    /\ pc = "idle"
    /\ start_commit' = IF dry_run THEN None ELSE head
    /\ original_handler' = handler
    /\ handler' = "_handle_interrupt"
    /\ pc' = "loop"
    /\ UNCHANGED <<cfg, aux, cli, repo, iteration, interrupted, mode_idx, success,
                   result, hist>>

\* Mutant of RunStart: the start revision is read in a dry run too.
RunStartAlwaysCaptures ==
    /\ pc = "idle"
    /\ IF ~dry_run /\ ~in_repo
       THEN /\ pc' = "raised"
            /\ UNCHANGED <<start_commit, original_handler, handler>>
       ELSE /\ start_commit' = head
            /\ original_handler' = handler
            /\ handler' = "_handle_interrupt"
            /\ pc' = "loop"
    /\ UNCHANGED <<cfg, aux, cli, repo, iteration, interrupted, mode_idx, success,
                   result, hist>>

\* run(), from its first line to the entry of the try block: the start
\* revision is read (get_repo raises outside a repository) and the
\* interrupt handler is installed.
RunStart ==
    /\ pc = "idle"
    /\ IF ~dry_run /\ ~in_repo
       THEN /\ pc' = "raised"
            /\ UNCHANGED <<start_commit, original_handler, handler>>
       ELSE /\ start_commit' = IF dry_run THEN None ELSE head
            /\ original_handler' = handler
            /\ handler' = "_handle_interrupt"
            /\ pc' = "loop"
    /\ UNCHANGED <<cfg, aux, cli, repo, iteration, interrupted, mode_idx, success,
                   result, hist>>

\* Mutant of LoopHead: the limit is compared with > instead of >=.
LoopHeadOffByOne ==
    /\ pc = "loop"
    /\ IF interrupted
       THEN LeaveTry("finalize")
       ELSE IF Truthy(max_iterations) /\ iteration > max_iterations
            THEN LeaveTry("finalize")
            ELSE /\ iteration < MaxIterations
                 /\ pc' = "iter"
                 /\ UNCHANGED handler
    /\ UNCHANGED <<cfg, aux, cli, repo, iteration, start_commit, interrupted, mode_idx,
                   success, result, original_handler, hist>>

\* Mutant of LoopHead: the while condition does not read the flag.
LoopHeadIgnoresFlag ==
    /\ pc = "loop"
    /\ IF Truthy(max_iterations) /\ iteration >= max_iterations
       THEN LeaveTry("finalize")
       ELSE /\ iteration < MaxIterations
            /\ pc' = "iter"
            /\ UNCHANGED handler
    /\ UNCHANGED <<cfg, aux, cli, repo, iteration, start_commit, interrupted, mode_idx,
                   success, result, original_handler, hist>>

\* The loop head of run(): the while condition, the iteration limit and
\* either the call of _run_iteration or the exit through finally.
LoopHead ==
    /\ pc = "loop"
    /\ IF interrupted
       THEN LeaveTry("finalize")
       ELSE IF Truthy(max_iterations) /\ iteration >= max_iterations
            THEN LeaveTry("finalize")
            ELSE /\ iteration < MaxIterations
                 /\ pc' = "iter"
                 /\ UNCHANGED handler
    /\ UNCHANGED <<cfg, aux, cli, repo, iteration, start_commit, interrupted, mode_idx,
                   success, result, original_handler, hist>>

\* _run_iteration up to the agent call: the mode is selected and its prompt
\* formatted; str.format raises on a placeholder other than {files}.
BeginIteration ==
    /\ pc = "iter"
    /\ mode_idx' = ModeIndex(iteration, nmodes)
    /\ IF FormatPrompt(modes[mode_idx' + 1]).raised
       THEN LeaveTry("raised")
       ELSE /\ pc' = "agent"
            /\ UNCHANGED handler
    /\ UNCHANGED <<cfg, aux, cli, repo, iteration, start_commit, interrupted, success,
                   result, original_handler, hist>>

\* What the agent process leaves behind in the repository: nothing, an
\* edit of the working tree, or an edit that it commits itself.
AgentActs(eff) ==
    CASE eff = "none"   -> UNCHANGED repo
      [] eff = "edit"   -> /\ dirty' = TRUE
                           /\ work_tree' = work_tree + 1
                           /\ UNCHANGED <<head, created, log, head_tree>>
      [] eff = "commit" -> /\ created' = created + 1
                           /\ head' = created + 1
                           /\ log' = Append(log, AgentMessage)
                           /\ work_tree' = work_tree + 1
                           /\ head_tree' = head_tree + 1
                           /\ UNCHANGED dirty

\* Mutant of RunOpencode: the exit status of the process is not looked at.
RunOpencodeAnyExit(dry, outcome) ==
    IF dry THEN TRUE ELSE outcome # "not_found"

\* Mutant of RunOpencode: a missing executable is not reported as a failure.
RunOpencodeIgnoresMissing(dry, outcome) ==
    IF dry THEN TRUE ELSE outcome # "exit_nonzero"

\* run_opencode: a dry run returns True without starting a process;
\* otherwise returncode == 0, and False on FileNotFoundError.
RunOpencode(dry, outcome) ==
    IF dry THEN TRUE
    ELSE CASE outcome = "exit0"        -> TRUE
           [] outcome = "exit_nonzero" -> FALSE
           [] outcome = "not_found"    -> FALSE

\* What a process that ended with `outcome' can have done: a process that
\* never started did nothing.
EffectsOf(outcome) ==
    IF outcome = "not_found" THEN {"none"} ELSE AgentEffects

\* cmd = ["opencode", "run", prompt], and "-m", model behind it when a
\* model is given.
Command(prompt, model) ==
    [program |-> <<"opencode", "run">>,
     prompt |-> prompt,
     options |-> IF model # {} THEN <<"-m", CHOOSE m \in model : TRUE>>
                 ELSE << >>]

\* Mutant of AgentCall: the model keyword is left out of the call.
AgentCallNoModel(outcome, eff, ok) ==
    [kind |-> "mode", mode |-> mode_idx, n |-> iteration + 1,
     prompt |-> FormatPrompt(modes[mode_idx + 1]).value,
     model |-> {},
     outcome |-> outcome, eff |-> eff, ok |-> ok]

\* The run_opencode call of _run_iteration as the history records it: its
\* arguments and what came of it.
AgentCall(outcome, eff, ok) ==
    [kind |-> "mode", mode |-> mode_idx, n |-> iteration + 1,
     prompt |-> FormatPrompt(modes[mode_idx + 1]).value,
     model |-> settings_model,
     outcome |-> outcome, eff |-> eff, ok |-> ok]

\* Mutant of RunAgent: the dry-run flag is not handed to run_opencode.
RunAgentDryExecutes ==
    /\ pc = "agent"
    /\ \E outcome \in AgentOutcomes : \E eff \in EffectsOf(outcome) :
          /\ success' = RunOpencode(FALSE, outcome)
          /\ calls' = Append(calls, AgentCall(outcome, eff, success'))
          /\ AgentActs(eff)
          /\ cmd' = Command(FormatPrompt(modes[mode_idx + 1]).value,
                          settings_model)
    /\ pc' = "commit"
    /\ UNCHANGED <<cfg, doc, config, review_prompt, cli, iteration, start_commit, interrupted, mode_idx, result,
                   original_handler, handler, returned, squash_invoked,
                   signals>>

\* Mutant of RunAgent: a failed agent call is made a second time.
RunAgentRetry ==
    /\ pc = "agent"
    /\ IF dry_run
       THEN /\ success' = RunOpencode(TRUE, "none")
            /\ calls' = Append(calls, AgentCall("none", "none", success'))
            /\ UNCHANGED <<repo, cmd>>
       ELSE \E outcome \in AgentOutcomes : \E eff \in EffectsOf(outcome) :
               LET call == AgentCall(outcome, eff, RunOpencode(FALSE, outcome))
               IN  /\ success' = call.ok
                   /\ calls' = IF call.ok THEN Append(calls, call)
                                ELSE Append(Append(calls, call), call)
                   /\ AgentActs(eff)
                   /\ cmd' = Command(FormatPrompt(modes[mode_idx + 1]).value,
                                   settings_model)
    /\ pc' = "commit"
    /\ UNCHANGED <<cfg, doc, config, review_prompt, cli, iteration, start_commit, interrupted, mode_idx, result,
                   original_handler, handler, returned, squash_invoked,
                   signals>>

\* success = run_opencode(prompt, model, dry_run): a dry run starts no
\* process and reports success; otherwise the agent runs and its exit code
\* decides.
RunAgent ==
    /\ pc = "agent"
    /\ IF dry_run
       THEN /\ success' = RunOpencode(TRUE, "none")
            /\ calls' = Append(calls, AgentCall("none", "none", success'))
            /\ UNCHANGED <<repo, cmd>>
       ELSE \E outcome \in AgentOutcomes : \E eff \in EffectsOf(outcome) :
               /\ success' = RunOpencode(FALSE, outcome)
               /\ calls' = Append(calls, AgentCall(outcome, eff, success'))
               /\ AgentActs(eff)
               /\ cmd' = Command(FormatPrompt(modes[mode_idx + 1]).value,
                               settings_model)
    /\ pc' = "commit"
    /\ UNCHANGED <<cfg, doc, config, review_prompt, cli, iteration, start_commit, interrupted, mode_idx, result,
                   original_handler, handler, returned, squash_invoked,
                   signals>>

\* The repository as the functions of git.py see it.
Repository ==
    [head |-> head, created |-> created, log |-> log, dirty |-> dirty,
     head_tree |-> head_tree, work_tree |-> work_tree]

\* has_changes: repo.is_dirty(untracked_files=True)
has_changes(r) == r.dirty

\* Mutant of commit_changes: the commit is made from the index as it is,
\* without git add -A.
commit_changes_unstaged(r, msg) ==
    IF ~has_changes(r)
    THEN [returned |-> FALSE, repo |-> r]
    ELSE [returned |-> TRUE,
          repo |-> [r EXCEPT !.created = r.created + 1,
                             !.head = r.created + 1,
                             !.log = Append(r.log, msg)]]

\* commit_changes: what it returns and the repository it leaves.
commit_changes(r, msg) ==
    IF ~has_changes(r)
    THEN [returned |-> FALSE, repo |-> r]
    ELSE [returned |-> TRUE,
          repo |-> [r EXCEPT !.created = r.created + 1,
                             !.head = r.created + 1,
                             !.log = Append(r.log, msg),
                             !.dirty = FALSE,
                             !.head_tree = r.work_tree]]

\* Mutant of CommitChanges: the commit is made only after a successful
\* agent call.
CommitChangesOnSuccess ==
    /\ pc = "commit"
    /\ IF ~dry_run /\ success /\ has_changes(Repository)
       THEN LET c == commit_changes(Repository,
                        IterationMessage(mode_idx, iteration + 1)).repo
            IN  /\ created' = c.created
                /\ head' = c.head
                /\ log' = c.log
                /\ dirty' = c.dirty
                /\ head_tree' = c.head_tree
                /\ work_tree' = c.work_tree
       ELSE UNCHANGED repo
    /\ pc' = "return"
    /\ UNCHANGED <<cfg, aux, cli, iteration, start_commit, interrupted, mode_idx, success,
                   result, original_handler, handler, hist>>

\* The commit of _run_iteration: outside a dry run, uncommitted changes are
\* committed under the template message.
CommitChanges ==
    /\ pc = "commit"
    /\ IF ~dry_run /\ has_changes(Repository)
       THEN LET c == commit_changes(Repository,
                        IterationMessage(mode_idx, iteration + 1)).repo
            IN  /\ created' = c.created
                /\ head' = c.head
                /\ log' = c.log
                /\ dirty' = c.dirty
                /\ head_tree' = c.head_tree
                /\ work_tree' = c.work_tree
       ELSE UNCHANGED repo
    /\ pc' = "return"
    /\ UNCHANGED <<cfg, aux, cli, iteration, start_commit, interrupted, mode_idx, success,
                   result, original_handler, handler, hist>>

\* Mutant of ReturnIteration: only a successful iteration is counted.
ReturnIterationOnSuccess ==
    /\ pc = "return"
    /\ iteration' = IF success THEN iteration + 1 ELSE iteration
    /\ result' = "continue"
    /\ returned' = returned + 1
    /\ pc' = "loop"
    /\ UNCHANGED <<cfg, aux, cli, repo, start_commit, interrupted, mode_idx, success,
                   original_handler, handler, calls, squash_invoked, signals>>

\* Mutant of ReturnIteration: a failed iteration returns the stop signal.
ReturnIterationStopOnFailure ==
    /\ pc = "return"
    /\ iteration' = iteration + 1
    /\ result' = IF success THEN "continue" ELSE "stop"
    /\ returned' = returned + 1
    /\ pc' = "loop"
    /\ UNCHANGED <<cfg, aux, cli, repo, start_commit, interrupted, mode_idx, success,
                   original_handler, handler, calls, squash_invoked, signals>>

\* The end of _run_iteration: self.iteration += 1; return True.
ReturnIteration ==
    /\ pc = "return"
    /\ iteration' = iteration + 1
    /\ result' = "continue"
    /\ returned' = returned + 1
    /\ pc' = "loop"
    /\ UNCHANGED <<cfg, aux, cli, repo, start_commit, interrupted, mode_idx, success,
                   original_handler, handler, calls, squash_invoked, signals>>

\* Mutant of HandleInterrupt: the first signal also abandons the iteration
\* in flight, as a raised KeyboardInterrupt caught around the loop would.
HandleInterruptAbort ==
    /\ handler = "_handle_interrupt"
    /\ IF interrupted
       THEN /\ LeaveTry("exited")
            /\ UNCHANGED interrupted
       ELSE /\ interrupted' = TRUE
            /\ LeaveTry("finalize")
    /\ signals' = Append(signals, [handler |-> handler, pc |-> pc,
                                    iteration |-> iteration])
    /\ UNCHANGED <<cfg, aux, cli, repo, iteration, start_commit, mode_idx, success,
                   result, original_handler, calls, returned, squash_invoked>>

\* Mutant of HandleInterrupt: the second signal ends the loop like the
\* first would, and run() goes on to its finalization.
HandleInterruptGraceful ==
    /\ handler = "_handle_interrupt"
    /\ IF interrupted
       THEN /\ LeaveTry("finalize")
            /\ UNCHANGED interrupted
       ELSE /\ interrupted' = TRUE
            /\ UNCHANGED <<pc, handler>>
    /\ signals' = Append(signals, [handler |-> handler, pc |-> pc,
                                    iteration |-> iteration])
    /\ UNCHANGED <<cfg, aux, cli, repo, iteration, start_commit, mode_idx, success,
                   result, original_handler, calls, returned, squash_invoked>>

\* _handle_interrupt, run on a SIGINT while it is the installed handler:
\* the first signal sets the flag, one more calls sys.exit(1), whose
\* SystemExit unwinds run() through its finally clause.
HandleInterrupt ==
    /\ handler = "_handle_interrupt"
    /\ IF interrupted
       THEN /\ LeaveTry("exited")
            /\ UNCHANGED interrupted
       ELSE /\ interrupted' = TRUE
            /\ UNCHANGED <<pc, handler>>
    /\ signals' = Append(signals, [handler |-> handler, pc |-> pc,
                                    iteration |-> iteration])
    /\ UNCHANGED <<cfg, aux, cli, repo, iteration, start_commit, mode_idx, success,
                   result, original_handler, calls, returned, squash_invoked>>

\* A SIGINT after run() has put Python's default handler back: the
\* KeyboardInterrupt it raises ends the process.
DefaultInterrupt ==
    /\ handler = "default_int_handler"
    /\ pc \in {"finalize", "squash_reset", "squash_commit"}
    /\ pc' = "killed"
    /\ signals' = Append(signals, [handler |-> handler, pc |-> pc,
                                    iteration |-> iteration])
    /\ UNCHANGED <<cfg, aux, cli, repo, iteration, start_commit, interrupted, mode_idx,
                   success, result, original_handler, handler, calls, returned,
                   squash_invoked>>

\* Mutant of Finalize: --no-squash is not honoured.
FinalizeIgnoresAutoSquash ==
    /\ pc = "finalize"
    /\ IF ~dry_run /\ start_commit # None
       THEN /\ squash_invoked' = TRUE
            /\ pc' = IF head = start_commit \/ log = << >>
                     THEN "done" ELSE "squash_reset"
       ELSE /\ pc' = "done"
            /\ UNCHANGED squash_invoked
    /\ UNCHANGED <<cfg, aux, cli, repo, iteration, start_commit, interrupted, mode_idx,
                   success, result, original_handler, handler, calls, returned,
                   signals>>

\* Mutant of Finalize: history is rewritten without looking at what there
\* is to squash.
FinalizeAlwaysRewrites ==
    /\ pc = "finalize"
    /\ IF auto_squash /\ ~dry_run /\ start_commit # None
       THEN /\ squash_invoked' = TRUE
            /\ pc' = "squash_reset"
       ELSE /\ pc' = "done"
            /\ UNCHANGED squash_invoked
    /\ UNCHANGED <<cfg, aux, cli, repo, iteration, start_commit, interrupted, mode_idx,
                   success, result, original_handler, handler, calls, returned,
                   signals>>

\* The squash guard of run() and _do_squash up to squash_commits' decision
\* to rewrite history.
Finalize ==
    /\ pc = "finalize"
    /\ IF auto_squash /\ ~dry_run /\ start_commit # None
       THEN /\ squash_invoked' = TRUE
            /\ pc' = IF head = start_commit \/ log = << >>
                     THEN "done" ELSE "squash_reset"
       ELSE /\ pc' = "done"
            /\ UNCHANGED squash_invoked
    /\ UNCHANGED <<cfg, aux, cli, repo, iteration, start_commit, interrupted, mode_idx,
                   success, result, original_handler, handler, calls, returned,
                   signals>>

\* Mutant of SquashReset: the reset is --hard and drops the changes.
SquashResetHard ==
    /\ pc = "squash_reset"
    /\ head' = start_commit
    /\ log' = << >>
    /\ dirty' = FALSE
    /\ head_tree' = 0
    /\ work_tree' = 0
    /\ pc' = "squash_commit"
    /\ UNCHANGED <<cfg, aux, cli, created, iteration, start_commit, interrupted, mode_idx,
                   success, result, original_handler, handler, hist>>

\* squash_commits: git reset --soft <since_commit>.
SquashReset ==
    /\ pc = "squash_reset"
    /\ head' = start_commit
    /\ log' = << >>
    /\ dirty' = TRUE
    /\ head_tree' = 0
    /\ pc' = "squash_commit"
    /\ UNCHANGED <<cfg, aux, cli, created, work_tree, iteration, start_commit, interrupted, mode_idx,
                   success, result, original_handler, handler, hist>>

\* squash_commits: git add -A and the one commit, under _do_squash's message.
SquashCommit ==
    /\ pc = "squash_commit"
    /\ created' = created + 1
    /\ head' = created + 1
    /\ log' = Append(log, SquashMessage(iteration))
    /\ dirty' = FALSE
    /\ head_tree' = work_tree
    /\ UNCHANGED work_tree
    /\ pc' = "done"
    /\ UNCHANGED <<cfg, aux, cli, iteration, start_commit, interrupted, mode_idx, success,
                   result, original_handler, handler, hist>>

Next ==
    \/ RunStart
    \/ LoopHead
    \/ BeginIteration
    \/ RunAgent
    \/ CommitChanges
    \/ ReturnIteration
    \/ HandleInterrupt
    \/ DefaultInterrupt
    \/ Finalize
    \/ SquashReset
    \/ SquashCommit

Spec == Init /\ [][Next]_vars

\* The steps the program takes by itself: everything but the arrival of a
\* signal.
ProgramStep ==
    \/ RunStart
    \/ LoopHead
    \/ BeginIteration
    \/ RunAgent
    \/ CommitChanges
    \/ ReturnIteration
    \/ Finalize
    \/ SquashReset
    \/ SquashCommit

\* The runs followed to their end: inside a repository, with the default
\* commit message template, the longest mode list, and no limit or a limit
\* of at least one iteration.
InitLive ==
    /\ Init
    /\ in_repo
    /\ commit_message_template = DefaultTemplate
    /\ nmodes = MaxModes
    /\ max_iterations # 0

\* A run in which the interpreter keeps running and every call to the agent
\* and to git returns.
SpecLive == InitLive /\ [][Next]_vars /\ WF_vars(ProgramStep)

TypeOK ==
    /\ nmodes \in 1..MaxModes
    /\ iteration \in 0..MaxIterations
    /\ start_commit \in {None} \cup Nat
    /\ interrupted \in BOOLEAN
    /\ pc \in {"idle", "loop", "iter", "agent", "commit", "return", "finalize",
               "squash_reset", "squash_commit", "done", "raised", "exited",
               "killed"}
    /\ handler \in PriorHandlers \cup {"_handle_interrupt"}
    /\ result \in {"none", "continue", "stop"}
    /\ Len(calls) <= MaxIterations
    /\ Len(signals) <= 3
    /\ since = None
    /\ message = {}
    /\ generation = << >>
    /\ doc = NoDoc
    /\ settings_model = {}
    /\ modes = PromptsOf(nmodes, bad_mode)
    /\ config = NoConfig
    /\ review_prompt = << >>
    /\ cmd.options \in {<< >>}
    /\ cmd.program \in {<< >>, <<"opencode", "run">>}

\* ------------------------------------------- the squash command ----
\* The standard output of the message agent is a sequence of tokens like a
\* commit message; Fence is a line of three backquotes, the mark that opens
\* and closes a code block.
Fence == "[fence]"
OutputTokens == {NL, Fence, "text"}
\* What the message agent can write to its standard output.
Stdouts == UNION {[1..n -> OutputTokens] : n \in 0..MaxOutput}
\* The messages of the commits the squash command finds: one written by the
\* loop, one by an agent, one with a body and white space around it.
CommitMessages ==
    {Format(DefaultTemplate, ModeName(0), 1),
     AgentMessage,
     <<NL, "fix", NL, NL, "body", NL>>}
\* The histories of at most MaxCommits commits over these messages.
Histories == UNION {[1..n -> CommitMessages] : n \in 0..MaxCommits}

Least(S) == CHOOSE x \in S : \A y \in S : x <= y
Greatest(S) == CHOOSE x \in S : \A y \in S : x >= y
LineBreaks(m) == {i \in 1..Len(m) : m[i] = NL}

\* str.strip()
Strip(m) ==
    LET text == (1..Len(m)) \ LineBreaks(m)
    IN  IF text = {} THEN << >> ELSE SubSeq(m, Least(text), Greatest(text))

\* m.split("\n")[0]
FirstLine(m) ==
    IF LineBreaks(m) = {} THEN m ELSE SubSeq(m, 1, Least(LineBreaks(m)) - 1)

\* "\n".join(m.split("\n")[1:-1])
InnerLines(m) ==
    IF Cardinality(LineBreaks(m)) < 2 THEN << >>
    ELSE SubSeq(m, Least(LineBreaks(m)) + 1, Greatest(LineBreaks(m)) - 1)

\* get_commits_since: the messages of the commits after revision s, oldest
\* first; a revision git does not know gives the empty list.
CommitsSince(s) ==
    IF s \in 0..Len(log) THEN SubSeq(log, s + 1, Len(log)) ELSE << >>

\* "\n".join(f"- {first line of the stripped message}") for the commits,
\* behind the line break that ends the heading.
RECURSIVE Listing(_)
Listing(commits) ==
    IF commits = << >> THEN << >>
    ELSE <<NL, "- ">> \o FirstLine(Strip(Head(commits)))
            \o Listing(Tail(commits))

\* The message squash_commits writes when it is given none.
SquashedCommitsMessage(commits) == <<"Squashed commits:">> \o Listing(commits)

\* The clean-up of the agent's output: strip, drop a surrounding code
\* fence, strip again; an empty result is no message.
CleanOutput(stdout) ==
    LET stripped == Strip(stdout)
        cleaned  == IF /\ stripped # << >>
                       /\ Head(stripped) = Fence
                       /\ stripped[Len(stripped)] = Fence
                    THEN Strip(InnerLines(stripped))
                    ELSE stripped
    IN  IF cleaned # << >> THEN {cleaned} ELSE {}

\* Mutant of GenerateSquashMessage: a failure of the agent's process is not
\* caught.
GenerateSquashMessageNoCatch(commits, outcome, stdout) ==
    [raised |-> commits # << >> /\ outcome # "exit0",
     value  |-> IF commits # << >> /\ outcome = "exit0"
                THEN CleanOutput(stdout) ELSE {}]

\* generate_squash_message_with_agent: what it returns ({} is None) and
\* whether an exception leaves it.
GenerateSquashMessage(commits, outcome, stdout) ==
    [raised |-> FALSE,
     value  |-> IF commits # << >> /\ outcome = "exit0"
                THEN CleanOutput(stdout) ELSE {}]

\* The squash command is started in a repository an earlier run left.
InitSquash ==
    /\ nmodes = 1
    /\ bad_mode = None
    /\ dry_run = FALSE
    /\ auto_squash = FALSE
    /\ max_iterations = None
    /\ commit_message_template = DefaultTemplate
    /\ in_repo \in BOOLEAN
    /\ iteration = 0
    /\ start_commit = None
    /\ interrupted = FALSE
    /\ pc = "cli_squash"
    /\ mode_idx = None
    /\ success = TRUE
    /\ result = "none"
    /\ original_handler = "unset"
    /\ handler = "default_int_handler"
    /\ log \in Histories
    /\ head = Len(log)
    /\ created = Len(log)
    /\ dirty \in BOOLEAN
    /\ head_tree = Len(log)
    /\ work_tree = IF dirty THEN Len(log) + 1 ELSE Len(log)
    /\ calls = << >>
    /\ returned = 0
    /\ squash_invoked = FALSE
    /\ signals = << >>
    /\ since \in 0..(MaxCommits + 1)
    /\ cli_message \in {{}, {<<"custom">>}}
    /\ no_agent \in BOOLEAN
    /\ message = {}
    /\ generation = << >>
    /\ doc = NoDoc
    /\ settings_model = {}
    /\ modes = PromptsOf(nmodes, bad_mode)
    /\ config = NoConfig
    /\ review_prompt = << >>
    /\ cmd = NoCmd

\* squash(), up to the decision to ask the agent for a message.
CliSquash ==
    /\ pc = "cli_squash"
    /\ message' = cli_message
    /\ pc' = IF ~in_repo \/ CommitsSince(since) = << >> THEN "cli_error"
             ELSE IF cli_message = {} /\ ~no_agent THEN "cli_generate"
             ELSE "cli_squash_commits"
    /\ UNCHANGED <<cfg, aux, repo, loop, hist, since, cli_message, no_agent,
                   generation>>

\* message = generate_squash_message_with_agent(repo, since)
CliGenerate ==
    /\ pc = "cli_generate"
    /\ \E outcome \in AgentOutcomes :
       \E stdout \in (IF outcome = "exit0" THEN Stdouts ELSE {<< >>}) :
          LET r == GenerateSquashMessage(CommitsSince(since), outcome, stdout)
          IN  /\ generation' = Append(generation, [outcome |-> outcome,
                                                   stdout |-> stdout])
              /\ message' = r.value
              /\ pc' = IF r.raised THEN "cli_error" ELSE "cli_squash_commits"
    /\ UNCHANGED <<cfg, aux, repo, loop, hist, since, cli_message, no_agent>>

\* Mutant of CliSquashCommits: only a listing that failed is noticed, not a
\* listing that is empty.
CliSquashCommitsKnownOnly ==
    /\ pc = "cli_squash_commits"
    /\ IF since \notin 0..Len(log)
       THEN /\ pc' = "cli_error"
            /\ UNCHANGED <<repo, message>>
       ELSE /\ message' = IF message = {}
                          THEN {SquashedCommitsMessage(CommitsSince(since))}
                          ELSE message
            /\ head' = since
            /\ log' = SubSeq(log, 1, since)
            /\ dirty' = TRUE
            /\ head_tree' = since
            /\ pc' = "cli_commit"
            /\ UNCHANGED <<created, work_tree>>
    /\ UNCHANGED <<cfg, aux, loop, hist, since, cli_message, no_agent, generation>>

\* squash_commits, up to and including git reset --soft <since_commit>;
\* without commits it returns False and squash() raises.
CliSquashCommits ==
    /\ pc = "cli_squash_commits"
    /\ IF CommitsSince(since) = << >>
       THEN /\ pc' = "cli_error"
            /\ UNCHANGED <<repo, message>>
       ELSE /\ message' = IF message = {}
                          THEN {SquashedCommitsMessage(CommitsSince(since))}
                          ELSE message
            /\ head' = since
            /\ log' = SubSeq(log, 1, since)
            /\ dirty' = TRUE
            /\ head_tree' = since
            /\ pc' = "cli_commit"
            /\ UNCHANGED <<created, work_tree>>
    /\ UNCHANGED <<cfg, aux, loop, hist, since, cli_message, no_agent, generation>>

\* squash_commits: git add -A and the commit; squash() reports success.
CliCommit ==
    /\ pc = "cli_commit"
    /\ created' = created + 1
    /\ head' = created'
    /\ log' = Append(log, CHOOSE m \in message : TRUE)
    /\ dirty' = FALSE
    /\ head_tree' = work_tree
    /\ pc' = "cli_done"
    /\ UNCHANGED <<cfg, aux, cli, loop, hist, work_tree>>

\* squash() is about to call squash_commits. The message agent, a process
\* of its own, has run in the repository since squash() listed the commits,
\* so the base revision may have any commits after it, or none, or be
\* unknown by now.
InitSquashCommits ==
    /\ pc = "cli_squash_commits"
    /\ in_repo = TRUE
    /\ log \in Histories
    /\ head = Len(log)
    /\ created = Len(log)
    /\ dirty \in BOOLEAN
    /\ head_tree = Len(log)
    /\ work_tree = IF dirty THEN Len(log) + 1 ELSE Len(log)
    /\ since \in 0..(MaxCommits + 1)
    /\ cli_message \in {{}, {<<"custom">>}}
    /\ message = cli_message
    /\ no_agent = (cli_message = {})
    /\ generation = << >>
    /\ nmodes = 1
    /\ bad_mode = None
    /\ dry_run = FALSE
    /\ auto_squash = FALSE
    /\ max_iterations = None
    /\ commit_message_template = DefaultTemplate
    /\ iteration = 0
    /\ start_commit = None
    /\ interrupted = FALSE
    /\ mode_idx = None
    /\ success = TRUE
    /\ result = "none"
    /\ original_handler = "unset"
    /\ handler = "default_int_handler"
    /\ calls = << >>
    /\ returned = 0
    /\ squash_invoked = FALSE
    /\ signals = << >>
    /\ doc = NoDoc
    /\ settings_model = {}
    /\ modes = PromptsOf(nmodes, bad_mode)
    /\ config = NoConfig
    /\ review_prompt = << >>
    /\ cmd = NoCmd

\* squash_commits from its call to its return.
NextSquashCommits ==
    \/ CliSquashCommits
    \/ CliCommit

SpecSquashCommits == InitSquashCommits /\ [][NextSquashCommits]_vars

NextSquash ==
    \/ CliSquash
    \/ CliGenerate
    \/ CliSquashCommits
    \/ CliCommit

SpecSquash == InitSquash /\ [][NextSquash]_vars

\* ---------------------------------------------- the run command ----
\* Mode prompts a preset file can hold: plain text, text with white space
\* around it, and text with the {files} field.
PlainPrompt == <<"Review the code.">>
PaddedPrompt == <<NL, "Check.", NL>>
\* An entry of the modes list of a preset file: whether it has the name key,
\* and its prompt key ({} when it has none).
ModeEntries ==
    {[has_name |-> TRUE, prompt |-> {q}] :
        q \in {PlainPrompt, PaddedPrompt, GoodPrompt}}
    \cup {[has_name |-> FALSE, prompt |-> {PlainPrompt}],
          [has_name |-> TRUE, prompt |-> {}]}
\* The preset files: none at the path, one that is not a mapping, and the
\* mappings with or without a name, with or without a modes list of at most
\* MaxModes entries, a model setting, a prompt prefix and a prompt suffix.
Docs ==
    {[NoDoc EXCEPT !.exists = e] : e \in BOOLEAN}
    \cup {[exists |-> TRUE, mapping |-> TRUE, has_name |-> hn,
           has_modes |-> ms # {},
           modes |-> IF ms = {} THEN << >> ELSE CHOOSE l \in ms : TRUE,
           model |-> md, prompt_prefix |-> px, prompt_suffix |-> sx] :
            hn \in BOOLEAN,
            ms \in {{}}
                   \cup {{l} : l \in UNION {[1..n -> ModeEntries] :
                                               n \in 0..MaxModes}},
            md \in {{}, {"custom-model-v1"}},
            px \in {{}, {<<"Be thorough.", NL>>}},
            sx \in {{}, {<<NL, "Commit changes.">>}}}

\* Mutant of LoadPreset: an empty modes list is let through.
LoadPresetAllowsEmpty(d) ==
    [error |->
        IF ~d.exists THEN "not found"
        ELSE IF ~d.mapping THEN "invalid format"
        ELSE IF ~d.has_name THEN "no name"
        ELSE IF ~d.has_modes THEN "no modes"
        ELSE IF \E i \in 1..Len(d.modes) :
                   ~d.modes[i].has_name \/ d.modes[i].prompt = {}
             THEN "mode without name or prompt"
        ELSE "",
     modes |-> [i \in 1..Len(d.modes) |->
                   IF d.modes[i].prompt = {} THEN << >>
                   ELSE CHOOSE q \in d.modes[i].prompt : TRUE],
     model |-> d.model]

\* The path lookup of run() and load_preset: the error that is raised ("" for
\* none) and, without one, the prompts of the modes and settings.model.
LoadPreset(d) ==
    [error |->
        IF ~d.exists THEN "not found"
        ELSE IF ~d.mapping THEN "invalid format"
        ELSE IF ~d.has_name THEN "no name"
        ELSE IF ~d.has_modes \/ d.modes = << >> THEN "no modes"
        ELSE IF \E i \in 1..Len(d.modes) :
                   ~d.modes[i].has_name \/ d.modes[i].prompt = {}
             THEN "mode without name or prompt"
        ELSE "",
     modes |-> [i \in 1..Len(d.modes) |->
                   IF d.modes[i].prompt = {} THEN << >>
                   ELSE CHOOSE q \in d.modes[i].prompt : TRUE],
     model |-> d.model]

\* The index of the first mode whose prompt str.format raises on, or None.
FirstBad(ms) ==
    LET bad == {i \in 1..Len(ms) : FormatPrompt(ms[i]).raised}
    IN  IF bad = {} THEN None ELSE Least(bad) - 1

\* The run command is started on a preset file, inside a repository, with
\* an iteration limit.
InitPreset ==
    /\ doc \in Docs
    /\ nmodes = 0
    /\ bad_mode = None
    /\ settings_model = {}
    /\ modes = << >>
    /\ dry_run \in BOOLEAN
    /\ auto_squash = TRUE
    /\ max_iterations \in 1..MaxLimit
    /\ commit_message_template = DefaultTemplate
    /\ in_repo = TRUE
    /\ iteration = 0
    /\ start_commit = None
    /\ interrupted = FALSE
    /\ pc = "cli_run"
    /\ mode_idx = None
    /\ success = TRUE
    /\ result = "none"
    /\ original_handler = "unset"
    /\ handler = "default_int_handler"
    /\ head = 0
    /\ created = 0
    /\ log = << >>
    /\ dirty = FALSE
    /\ head_tree = 0
    /\ work_tree = 0
    /\ calls = << >>
    /\ returned = 0
    /\ squash_invoked = FALSE
    /\ signals = << >>
    /\ since = None
    /\ cli_message = {}
    /\ no_agent = FALSE
    /\ message = {}
    /\ generation = << >>
    /\ config = NoConfig
    /\ review_prompt = << >>
    /\ cmd = NoCmd

\* run() of the command line up to the call of run_loop: the preset is
\* found and loaded, or the command ends with the error.
CliRun ==
    /\ pc = "cli_run"
    /\ LET r == LoadPreset(doc)
       IN  IF r.error # ""
           THEN /\ pc' = "cli_error"
                /\ UNCHANGED <<nmodes, bad_mode, settings_model, modes>>
           ELSE /\ nmodes' = Len(r.modes)
                /\ modes' = r.modes
                /\ settings_model' = r.model
                /\ bad_mode' = FirstBad(r.modes)
                /\ pc' = "idle"
    /\ UNCHANGED <<dry_run, auto_squash, max_iterations,
                   commit_message_template, in_repo, aux, cli, repo, loop,
                   hist>>

\* The run command without a signal.
NextPreset ==
    \/ CliRun
    \/ RunStart
    \/ LoopHead
    \/ BeginIteration
    \/ RunAgent
    \/ CommitChanges
    \/ ReturnIteration
    \/ Finalize
    \/ SquashReset
    \/ SquashCommit

SpecPreset == InitPreset /\ [][NextPreset]_vars

\* -------------------------------------------- the review prompt ----
\* The texts a review configuration can hold: the empty string, a line, a
\* line with line breaks around it, and white space alone.
ReviewTexts == {<< >>, <<"Check.">>, <<NL, "Check.", NL>>, <<NL>>}
\* The review configurations: a check prompt, a filter prompt, a fix prompt
\* (or None) and a list of globs (or None).
Configs ==
    [check_prompt : ReviewTexts,
     filter_prompt : ReviewTexts,
     fix_prompt : {{}} \cup {{t} : t \in {<< >>, <<"Fix all.">>,
                                          <<NL, NL, "Fix all.">>}},
     scope_globs : {{}, {<< >>}, {<<"*.md", "docs/**">>}}]
\* preset.description
Description == "Review documentation for accuracy"

RECURSIVE JoinLines(_)
\* "\n".join(parts)
JoinLines(parts) ==
    IF parts = << >> THEN << >>
    ELSE IF Len(parts) = 1 THEN parts[1]
    ELSE parts[1] \o <<NL>> \o JoinLines(Tail(parts))

\* The lines every review prompt starts with (the code marks the command
\* git diff with backquotes, written here as brackets).
TaskSection(description) ==
    <<<<"Task: ", description>>,
      << >>,
      <<"A cycle of work has been completed. Review and finalize the changes.">>,
      << >>,
      <<"Use [git diff] to see what was changed. Focus only on changes related to the task above.">>,
      <<"If there are unrelated modified files, ignore them--do not include them in your review or commit.">>,
      << >> >>

\* The check instructions, when the configuration has some.
ReviewScopeSection(c) ==
    IF c.check_prompt # << >>
    THEN << <<"**Review scope:**">>, Strip(c.check_prompt), << >> >>
    ELSE << >>

\* Mutant of FilterSection: the filter instructions are only given with
\* check instructions.
FilterSectionNested(c) ==
    IF c.filter_prompt # << >> /\ c.check_prompt # << >>
    THEN << <<"**Before acting, filter your feedback:**">>,
            Strip(c.filter_prompt), << >> >>
    ELSE << >>

\* The filter instructions, when the configuration has some.
FilterSection(c) ==
    IF c.filter_prompt # << >>
    THEN << <<"**Before acting, filter your feedback:**">>,
            Strip(c.filter_prompt), << >> >>
    ELSE << >>

DefaultFix == "If actionable issues remain after filtering, fix them."

\* Mutant of FixSection: the default instruction is always given.
FixSectionBoth(c) ==
    << <<"**Fix:**">> >>
    \o (IF \E t \in c.fix_prompt : t # << >>
        THEN <<Strip(CHOOSE t \in c.fix_prompt : TRUE)>>
        ELSE << >>)
    \o << <<DefaultFix>>, << >> >>

\* The fix instructions: the configured ones, or the default.
FixSection(c) ==
    << <<"**Fix:**">> >>
    \o (IF \E t \in c.fix_prompt : t # << >>
        THEN <<Strip(CHOOSE t \in c.fix_prompt : TRUE)>>
        ELSE << <<DefaultFix>> >>)
    \o << << >> >>

\* The commit instructions.
CommitSection ==
    << <<"**Commit:**">>,
       <<"Stage and commit only the files related to the task.">>,
       <<"Use a clear commit message summarizing what was accomplished.">>,
       <<"If there are no changes to commit (nothing relevant was modified), do nothing.">> >>

\* Mutant of build_review_prompt: the fix instructions are put in front of
\* the filter instructions.
build_review_prompt_fix_first(description, c) ==
    JoinLines(TaskSection(description) \o ReviewScopeSection(c)
              \o FixSection(c) \o FilterSection(c) \o CommitSection)

\* build_review_prompt: the sections in their order, one line break between
\* two lines.
build_review_prompt(description, c) ==
    JoinLines(TaskSection(description) \o ReviewScopeSection(c)
              \o FilterSection(c) \o FixSection(c) \o CommitSection)

\* A review prompt is about to be built for a configuration.
InitReview ==
    /\ config \in Configs
    /\ review_prompt = << >>
    /\ cmd = NoCmd
    /\ pc = "review"
    /\ doc = NoDoc
    /\ nmodes = 1
    /\ bad_mode = None
    /\ settings_model = {}
    /\ modes = PromptsOf(1, None)
    /\ dry_run = FALSE
    /\ auto_squash = TRUE
    /\ max_iterations = None
    /\ commit_message_template = DefaultTemplate
    /\ in_repo = TRUE
    /\ iteration = 0
    /\ start_commit = None
    /\ interrupted = FALSE
    /\ mode_idx = None
    /\ success = TRUE
    /\ result = "none"
    /\ original_handler = "unset"
    /\ handler = "default_int_handler"
    /\ head = 0
    /\ created = 0
    /\ log = << >>
    /\ dirty = FALSE
    /\ head_tree = 0
    /\ work_tree = 0
    /\ calls = << >>
    /\ returned = 0
    /\ squash_invoked = FALSE
    /\ signals = << >>
    /\ since = None
    /\ cli_message = {}
    /\ no_agent = FALSE
    /\ message = {}
    /\ generation = << >>

\* build_review_prompt(preset, config) is called and returns.
BuildReviewPrompt ==
    /\ pc = "review"
    /\ review_prompt' = build_review_prompt(Description, config)
    /\ pc' = "review_built"
    /\ UNCHANGED <<cfg, doc, config, cmd, cli, repo, loop, hist>>

NextReview == BuildReviewPrompt

SpecReview == InitReview /\ [][NextReview]_vars

\* ------------------------------------------------ run_opencode ----
\* How subprocess.run can end in run_opencode: as in the loop, or with the
\* KeyboardInterrupt that Python's default handler raises on a SIGINT.
RunnerOutcomes(h) ==
    AgentOutcomes
    \cup (IF h = "default_int_handler" THEN {"keyboard_interrupt"} ELSE {})

\* run_opencode is about to be called with a prompt, a model or None, and
\* the dry-run flag, under one of the handlers a caller may have.
InitRunner ==
    /\ pc = "run_opencode"
    /\ dry_run \in BOOLEAN
    /\ settings_model \in {{}, {"custom-model-v2"}}
    /\ modes \in {<<q>> : q \in {PlainPrompt, PaddedPrompt, GoodPrompt}}
    /\ handler \in PriorHandlers
    /\ nmodes = 1
    /\ bad_mode = None
    /\ auto_squash = FALSE
    /\ max_iterations = None
    /\ commit_message_template = DefaultTemplate
    /\ in_repo = TRUE
    /\ iteration = 0
    /\ start_commit = None
    /\ interrupted = FALSE
    /\ mode_idx = None
    /\ success = TRUE
    /\ result = "none"
    /\ original_handler = "unset"
    /\ head = 0
    /\ created = 0
    /\ log = << >>
    /\ dirty = FALSE
    /\ head_tree = 0
    /\ work_tree = 0
    /\ calls = << >>
    /\ returned = 0
    /\ squash_invoked = FALSE
    /\ signals = << >>
    /\ since = None
    /\ cli_message = {}
    /\ no_agent = FALSE
    /\ message = {}
    /\ generation = << >>
    /\ doc = NoDoc
    /\ config = NoConfig
    /\ review_prompt = << >>
    /\ cmd = NoCmd

\* Mutant of RunOpencodeCall: the KeyboardInterrupt is caught like the
\* FileNotFoundError and reported as a failure.
RunOpencodeCallCatches ==
    /\ pc = "run_opencode"
    /\ IF dry_run
       THEN /\ success' = RunOpencode(TRUE, "none")
            /\ calls' = Append(calls, [kind |-> "direct", outcome |-> "none",
                                       eff |-> "none"])
            /\ pc' = "runner_returned"
            /\ UNCHANGED <<repo, cmd>>
       ELSE \E outcome \in RunnerOutcomes(handler) :
            \E eff \in EffectsOf(outcome) :
               /\ cmd' = Command(modes[1], settings_model)
               /\ calls' = Append(calls, [kind |-> "direct",
                                          outcome |-> outcome, eff |-> eff])
               /\ AgentActs(eff)
               /\ IF outcome = "keyboard_interrupt"
                  THEN /\ success' = FALSE
                       /\ pc' = "runner_returned"
                  ELSE /\ success' = RunOpencode(FALSE, outcome)
                       /\ pc' = "runner_returned"
    /\ UNCHANGED <<cfg, doc, config, review_prompt, cli, iteration,
                   start_commit, interrupted, mode_idx, result,
                   original_handler, handler, returned, squash_invoked,
                   signals>>

\* One call of run_opencode(prompt, model, dry_run): it returns a result or
\* an exception leaves it.
RunOpencodeCall ==
    /\ pc = "run_opencode"
    /\ IF dry_run
       THEN /\ success' = RunOpencode(TRUE, "none")
            /\ calls' = Append(calls, [kind |-> "direct", outcome |-> "none",
                                       eff |-> "none"])
            /\ pc' = "runner_returned"
            /\ UNCHANGED <<repo, cmd>>
       ELSE \E outcome \in RunnerOutcomes(handler) :
            \E eff \in EffectsOf(outcome) :
               /\ cmd' = Command(modes[1], settings_model)
               /\ calls' = Append(calls, [kind |-> "direct",
                                          outcome |-> outcome, eff |-> eff])
               /\ AgentActs(eff)
               /\ IF outcome = "keyboard_interrupt"
                  THEN /\ pc' = "runner_raised"
                       /\ UNCHANGED success
                  ELSE /\ success' = RunOpencode(FALSE, outcome)
                       /\ pc' = "runner_returned"
    /\ UNCHANGED <<cfg, doc, config, review_prompt, cli, iteration,
                   start_commit, interrupted, mode_idx, result,
                   original_handler, handler, returned, squash_invoked,
                   signals>>

NextRunner == RunOpencodeCall

SpecRunner == InitRunner /\ [][NextRunner]_vars

\* ------------------------------------------------------------ claims ----
\* Positions of run() at which control is inside the try block.
InTry == {"loop", "iter", "agent", "commit", "return"}
\* Positions of run() after the loop was left without an exception.
AfterLoop == {"finalize", "squash_reset", "squash_commit", "done", "killed"}

\* C1: the k-th agent call of a run (iteration index k - 1) is made in mode
\* (k - 1) mod L, the mode of the iteration in progress is iteration mod L,
\* and the last mode of the list - the end of a cycle - is run exactly at
\* the calls whose number is a multiple of L.
C1_ModeCycling ==
    /\ \A k \in 1..Len(calls) :
          /\ calls[k].mode = (k - 1) % nmodes
          /\ (calls[k].mode = nmodes - 1) <=> (k % nmodes = 0)
    /\ pc \in {"agent", "commit", "return"} => mode_idx = iteration % nmodes

\* A two-mode preset whose third iteration wrapped back to the first mode.
C1_Witness ==
    /\ nmodes = 2
    /\ Len(calls) = 3
    /\ calls[2].mode = 1
    /\ calls[3].mode = 0

\* C2: self.iteration equals the number of _run_iteration calls that have
\* returned; it changes only in the returning step of an iteration, and that
\* step adds exactly one whatever the agent's result was.
C2_IterationCounts ==
    /\ [](iteration = returned)
    /\ [][iteration' # iteration =>
             (pc = "return" /\ pc' = "loop" /\ iteration' = iteration + 1)]_vars
    /\ [][(pc = "return" /\ pc' = "loop") => iteration' = iteration + 1]_vars

\* Two iterations have completed, the first failed and the second succeeded.
C2_Witness ==
    /\ pc = "loop"
    /\ returned = 2
    /\ iteration = 2
    /\ ~calls[1].ok
    /\ calls[2].ok

\* C3: after every completed iteration the runner's consecutive-failure
\* counter equals the number of failed agent calls since the last success
\* (0 right after a success, k after k failures in a row).
C3_FailureCounter ==
    (pc = "loop" /\ returned > 0) => consecutive_failures = FailRun(calls)

\* C4: with the threshold of the test suite (2) configured, an iteration
\* returns the stop signal exactly when the run of consecutive failures has
\* reached the threshold.
C4_StopAtThreshold ==
    (pc = "loop" /\ returned > 0) =>
        ((result = "stop") <=> (FailRun(calls) >= TestMaxConsecutiveFailures))

\* C5: once an iteration has brought the run of consecutive failures to the
\* threshold, run() starts no further iteration.
C5_StopEndsRun ==
    [][(pc = "loop" /\ returned > 0
          /\ FailRun(calls) >= TestMaxConsecutiveFailures) => pc' # "iter"]_vars

\* C6: with no failure threshold every _run_iteration returns continue, and
\* from the loop head run() goes nowhere but into the next iteration unless
\* it was interrupted or the iteration limit is reached - however many
\* agent calls have failed.
C6_FailuresNeverStop ==
    /\ [](returned > 0 => result = "continue")
    /\ [][(/\ pc = "loop"
           /\ ~interrupted
           /\ ~(max_iterations # None /\ iteration >= max_iterations)
           /\ pc' # "loop") => pc' = "iter"]_vars

\* A third iteration has started right after two failed ones.
C6_Witness ==
    /\ pc = "iter"
    /\ iteration = 2
    /\ FailRun(calls) = 2

\* C7: in the two-mode preset with review enabled, the iteration that runs
\* the last mode ends with a review pass as its last agent invocation.
C7_ReviewAfterCycle ==
    (pc = "return" /\ nmodes = TestReviewModes /\ mode_idx = nmodes - 1) =>
        calls[Len(calls)].kind = "review"

\* C8: the first SIGINT handled by _handle_interrupt sets the flag and
\* changes nothing else; no iteration is entered while the flag is set; and
\* when the loop has then been left, the iteration that was in flight at
\* the signal has completed (agent call made, counter incremented) and no
\* later one was run.
C8_FirstInterruptGraceful ==
    /\ [][(signals = << >> /\ signals' # << >>
             /\ signals'[1].handler = "_handle_interrupt") =>
          (/\ interrupted'
           /\ UNCHANGED <<pc, handler, iteration, start_commit, mode_idx,
                          success, result, repo, calls, returned,
                          squash_invoked>>)]_vars
    /\ [][interrupted => ~(pc = "loop" /\ pc' = "iter")]_vars
    /\ []((/\ signals # << >>
           /\ signals[1].handler = "_handle_interrupt"
           /\ pc \in AfterLoop) =>
          (/\ iteration = signals[1].iteration
                            + (IF signals[1].pc = "loop" THEN 0 ELSE 1)
           /\ returned = iteration
           /\ Len(calls) = iteration))

\* One signal arrived during the agent call of the second iteration; that
\* iteration completed and the loop was left.
C8_Witness ==
    /\ Len(signals) = 1
    /\ signals[1].pc = "agent"
    /\ signals[1].iteration = 1
    /\ pc = "finalize"
    /\ iteration = 2
    /\ Len(calls) = 2

\* C9: a second SIGINT handled by _handle_interrupt ends the process on the
\* spot: the run is at "exited" with the iteration count of the moment of the
\* signal, _do_squash has not been and is never called, and nothing else
\* leads to that forced exit.
C9_SecondInterruptExits ==
    /\ (Len(signals) >= 2 /\ signals[2].handler = "_handle_interrupt") =>
          (/\ pc = "exited"
           /\ ~squash_invoked
           /\ iteration = signals[2].iteration)
    /\ pc = "exited" =>
          (Len(signals) = 2 /\ signals[2].handler = "_handle_interrupt")

\* A forced exit during the commit step of a run that had commits to squash.
C9_Witness ==
    /\ pc = "exited"
    /\ auto_squash
    /\ ~dry_run
    /\ head # start_commit
    /\ signals[2].pc = "commit"

\* C10: _handle_interrupt is the installed handler exactly while control is
\* inside the try block of run(); wherever run() has left it - after the
\* loop, with an exception out of an iteration, or by the forced exit - the
\* handler found at the start of run() is installed again.
C10_HandlerScoped ==
    /\ original_handler \in PriorHandlers \cup {"unset"}
    /\ (pc \in InTry) <=> (handler = "_handle_interrupt")
    /\ (pc \notin InTry /\ original_handler # "unset") =>
          handler = original_handler

\* An exception left run() from a later iteration and SIG_IGN, the handler
\* installed before run(), is back.
C10_Witness ==
    /\ pc = "raised"
    /\ Len(calls) >= 1
    /\ original_handler = "SIG_IGN"
    /\ handler = "SIG_IGN"

\* The three conditions of the squash guard of run().
SquashAllowed == auto_squash /\ ~dry_run /\ start_commit # None

\* The message is the one _do_squash writes.
IsSquashMessage(m) == Len(m) = 5 /\ m[1] = "[agent-loop] "

\* Number of agent calls that changed the working tree.
Edits(cs) == Cardinality({k \in 1..Len(cs) : cs[k].eff # "none"})

\* C11: _do_squash is called, a soft reset is made and a squash commit
\* exists only in a run with auto-squash on, not dry and a start revision;
\* when one of the three is missing the finalization step leaves the
\* repository as it is.
C11_SquashOnlyWhenAllowed ==
    /\ [](squash_invoked => SquashAllowed)
    /\ [](pc \in {"squash_reset", "squash_commit"} => SquashAllowed)
    /\ [](~SquashAllowed => \A k \in 1..Len(log) : ~IsSquashMessage(log[k]))
    /\ [][(pc = "finalize" /\ ~SquashAllowed) =>
             (pc' \in {"done", "killed"} /\ UNCHANGED repo)]_vars

\* A non-dry run with --no-squash ended with its two commits in place.
C11_Witness ==
    /\ pc = "done"
    /\ ~auto_squash
    /\ ~dry_run
    /\ start_commit # None
    /\ Len(log) = 2
    /\ ~squash_invoked

\* C12: when the finalization step finds HEAD at the start revision it
\* changes nothing in the repository and the run is over.
C12_SquashNoOpAtStart ==
    [][(pc = "finalize" /\ head = start_commit) =>
          (pc' \in {"done", "killed"} /\ UNCHANGED repo)]_vars

\* _do_squash ran after two iterations that left HEAD at the start revision.
C12_Witness ==
    /\ pc = "done"
    /\ squash_invoked
    /\ head = start_commit
    /\ returned = 2
    /\ created = 0

\* C13: when _do_squash finds HEAD away from the start revision it goes on
\* to the soft reset (HEAD back at the start revision, every change staged),
\* and when the run is done one new commit follows the start revision: it
\* holds every edit the agents made, nothing is left uncommitted, and its
\* message is the fixed one with the preset name and the final count.
C13_SquashOneCommit ==
    /\ [][(pc = "finalize" /\ SquashAllowed /\ head # start_commit) =>
             pc' \in {"squash_reset", "killed"}]_vars
    /\ [](pc = "squash_commit" =>
             (head = start_commit /\ log = << >> /\ dirty
              /\ work_tree = Edits(calls)))
    /\ []((pc = "done" /\ squash_invoked /\ head # start_commit) =>
             (/\ log = << <<"[agent-loop] ", PresetName, ": ",
                            ToString(returned), " iterations">> >>
              /\ head = created
              /\ ~dirty
              /\ head_tree = Edits(calls)
              /\ work_tree = Edits(calls)))

\* Two iterations that both changed the tree were squashed into one commit.
C13_Witness ==
    /\ pc = "done"
    /\ squash_invoked
    /\ head # start_commit
    /\ Len(log) = 1
    /\ returned = 2
    /\ Edits(calls) = 2
    /\ created = 3

\* The message agent was run and gave no message: its executable is
\* missing, it exited with a non-zero status, or it wrote nothing but white
\* space.
GenerationFailed ==
    /\ generation # << >>
    /\ \/ generation[1].outcome # "exit0"
       \/ \A i \in 1..Len(generation[1].stdout) :
             generation[1].stdout[i] = NL

\* C14: in the squash command the message generation always hands control
\* on to squash_commits; when it failed it hands on no message, and
\* squash_commits then goes on to the reset and the commit, after which
\* exactly one commit follows the --since revision, nothing is left
\* uncommitted, and the commit's message is the list of the squashed
\* commits.
C14_GenerationFailureNotFatal ==
    /\ [][pc = "cli_generate" => pc' = "cli_squash_commits"]_vars
    /\ []((GenerationFailed /\ pc = "cli_squash_commits") => message = {})
    /\ [][(GenerationFailed /\ pc = "cli_squash_commits") =>
             pc' = "cli_commit"]_vars
    /\ [][(GenerationFailed /\ pc = "cli_commit") => pc' = "cli_done"]_vars
    /\ []((generation # << >> /\ pc = "cli_done") => Len(log) = since + 1)
    /\ []((GenerationFailed /\ pc = "cli_done") =>
             (/\ Len(log) = since + 1
              /\ head = created
              /\ ~dirty
              /\ head_tree = work_tree
              /\ log[Len(log)][1] = "Squashed commits:"
              /\ Cardinality({i \in 1..Len(log[Len(log)]) :
                    log[Len(log)][i] = "- "}) = created - 1 - since))

\* The agent's executable was missing and two commits were squashed into
\* one, whose message lists both.
C14_Witness ==
    /\ pc = "cli_done"
    /\ generation # << >>
    /\ generation[1].outcome = "not_found"
    /\ since = 0
    /\ created = 3
    /\ Len(log) = 1
    /\ log[1][1] = "Squashed commits:"

\* C15: with an iteration limit N configured (N >= 0) no more than N
\* iterations are run: an iteration is entered only while fewer than N have
\* completed.
C15_LimitBoundsIterations ==
    max_iterations # None =>
        (/\ Len(calls) <= max_iterations
         /\ pc = "iter" => iteration < max_iterations)

\* The name of the mode and the number of the iteration whose agent call
\* was made last.
LastCallMode == ModeName(calls[Len(calls)].mode)
LastCallNumber == ToString(Len(calls))

\* C16: the commit step of an iteration, outside a dry run and with
\* uncommitted changes, adds exactly one commit whose message is the
\* template with the mode's name and the 1-based iteration number filled in
\* ("[m] iteration n" for the default), and leaves the tree clean; in a dry
\* run or with nothing to commit it creates no commit.
C16_IterationCommit ==
    [][(pc = "commit" /\ pc' = "return") =>
          IF ~dry_run /\ dirty
          THEN /\ log' = Append(log,
                    IF commit_message_template = DefaultTemplate
                    THEN <<"[", LastCallMode, "] iteration ", LastCallNumber>>
                    ELSE <<LastCallNumber, ": ", LastCallMode, " pass">>)
               /\ created' = created + 1
               /\ head' = created'
               /\ ~dirty'
          ELSE UNCHANGED <<log, created, head, dirty>>]_vars

\* The second iteration, in mode "clarity", was committed under the default
\* template.
C16_Witness ==
    /\ pc = "return"
    /\ Len(calls) = 2
    /\ log # << >>
    /\ log[Len(log)] = <<"[", "clarity", "] iteration ", "2">>

\* C17: no iteration has two agent calls of the same kind, so at most one
\* for its mode and at most one review call; every iteration that returned
\* or has reached its commit step has made its call, in its own mode, and an
\* iteration that has not reached its agent call has made none; of the
\* loop's own steps only the commit step creates a commit, at most one, and
\* an iteration goes through it once.
C17_OneCallPerIteration ==
    /\ [](\A j, k \in 1..Len(calls) :
             j < k => (calls[j].n # calls[k].n \/ calls[j].kind # calls[k].kind))
    /\ [](\A k \in 1..Len(calls) :
             /\ calls[k].n <= returned + 1
             /\ calls[k].kind = "mode" =>
                   calls[k].mode = (calls[k].n - 1) % nmodes)
    /\ [](\A n \in 1..returned :
             \E k \in 1..Len(calls) : calls[k].n = n /\ calls[k].kind = "mode")
    /\ [](pc \in {"commit", "return"} =>
             \E k \in 1..Len(calls) :
                calls[k].n = returned + 1 /\ calls[k].kind = "mode")
    /\ [](pc \in {"loop", "iter", "agent"} =>
             \A k \in 1..Len(calls) : calls[k].n <= returned)
    /\ [][(pc \in InTry \ {"agent"}) =>
             created' <= created + (IF pc = "commit" THEN 1 ELSE 0)]_vars
    /\ [][(pc = "commit" /\ pc' # pc) => pc' \in {"return", "exited"}]_vars
    /\ [][(pc = "return" /\ pc' # pc) =>
             (pc' \in {"loop", "exited"}
              /\ (pc' = "loop" => returned' = returned + 1))]_vars

\* Two iterations have completed, each with its one agent call and its one
\* commit.
C17_Witness ==
    /\ pc = "loop"
    /\ returned = 2
    /\ Len(calls) = 2
    /\ Len(log) = 2
    /\ log[1] # AgentMessage
    /\ log[2] # AgentMessage

\* C18: self.start_commit is assigned only by the first step of run(), only
\* in a non-dry run, from unset to the revision HEAD has before any
\* iteration; no later step changes it, and in a dry run it stays unset.
C18_StartCommitOnce ==
    /\ [][start_commit' # start_commit =>
             (/\ pc = "idle"
              /\ ~dry_run
              /\ start_commit = None
              /\ start_commit' = head
              /\ calls = << >>)]_vars
    /\ [](dry_run => start_commit = None)
    /\ []((~dry_run /\ pc \in InTry \cup AfterLoop \cup {"exited"}) =>
             start_commit # None)

\* An interrupted non-dry run was squashed: HEAD has moved on and the start
\* revision is still the one read at the start.
C18_Witness ==
    /\ pc = "done"
    /\ ~dry_run
    /\ squash_invoked
    /\ signals # << >>
    /\ start_commit = 0
    /\ head = 3

\* C19: when run() is entered the loop state is fresh: no iteration counted,
\* no consecutive failure counted, not interrupted, no start revision.
C19_FreshRunState ==
    pc = "idle" =>
        (/\ iteration = 0
         /\ consecutive_failures = 0
         /\ ~interrupted
         /\ start_commit = None)

\* C20: an agent call whose executable is missing is a failed call and not
\* an exception: the only exceptions that leave the loop come from the
\* prompt of a mode, the iteration is counted like any other, and the loop
\* head goes on from it as after any iteration.
C20_MissingAgentIsFailure ==
    /\ [](\A k \in 1..Len(calls) :
             calls[k].outcome = "not_found" => ~calls[k].ok)
    /\ []((pc = "raised" /\ original_handler # "unset") =>
             (bad_mode # None /\ mode_idx = bad_mode))
    /\ []((pc = "loop" /\ calls # << >>) => iteration = Len(calls))
    /\ [][(/\ pc = "loop"
           /\ calls # << >>
           /\ calls[Len(calls)].outcome = "not_found"
           /\ ~interrupted
           /\ ~(Truthy(max_iterations) /\ iteration >= max_iterations)
           /\ pc' # "loop") => pc' = "iter"]_vars

\* The first agent call found no executable; the iteration was counted and
\* the second iteration is at its agent call.
C20_Witness ==
    /\ pc = "agent"
    /\ iteration = 1
    /\ Len(calls) = 1
    /\ calls[1].outcome = "not_found"
    /\ ~success

\* C21: a run_opencode call of a dry run reports success, starts no process
\* (there is no exit status and no effect) and leaves the repository as it
\* is; a call outside a dry run reports success exactly when the process
\* exited with status 0.
C21_InvokerResult ==
    /\ [](\A k \in 1..Len(calls) :
             IF dry_run
             THEN calls[k].ok /\ calls[k].outcome = "none"
                  /\ calls[k].eff = "none"
             ELSE calls[k].ok <=> calls[k].outcome = "exit0")
    /\ [][(pc = "agent" /\ pc' = "commit") =>
             (/\ Len(calls') = Len(calls) + 1
              /\ success' = calls'[Len(calls')].ok
              /\ dry_run => UNCHANGED repo)]_vars

\* One call exited with a non-zero status and failed, the next exited with
\* status 0 and succeeded.
C21_Witness ==
    /\ ~dry_run
    /\ Len(calls) = 2
    /\ calls[1].outcome = "exit_nonzero"
    /\ ~calls[1].ok
    /\ calls[2].outcome = "exit0"
    /\ calls[2].ok

\* C22 as stated: outside a repository no run makes an agent call.
C22_NoRepoNoIteration ==
    ~in_repo => calls = << >>

\* C22, amended: outside a repository a run that is not a dry run stops
\* with the error at its first step: no iteration is entered, no agent call
\* is made, no handler is installed and nothing is finalized.
C22_NoRepoNoIterationUnlessDry ==
    (~in_repo /\ ~dry_run) =>
        (/\ pc \in {"idle", "raised"}
         /\ calls = << >>
         /\ iteration = 0
         /\ original_handler = "unset"
         /\ ~squash_invoked)

\* A run that is not a dry run was started outside a repository and has
\* raised.
C22_Witness ==
    /\ ~in_repo
    /\ ~dry_run
    /\ pc = "raised"

\* C29: no step of a dry run changes the repository; a dry run never calls
\* _do_squash and never reaches the reset or the squash commit; and it does
\* not ask for the repository at all: outside one it raises nothing for the
\* lack of it.
C29_DryRunLeavesRepo ==
    /\ [][dry_run => UNCHANGED repo]_vars
    /\ [](dry_run =>
             (/\ ~squash_invoked
              /\ start_commit = None
              /\ pc \notin {"squash_reset", "squash_commit"}
              /\ created = 0
              /\ (pc = "raised" => (bad_mode # None /\ mode_idx = bad_mode))))

\* A dry run outside a repository was interrupted after two iterations and
\* is done.
C29_Witness ==
    /\ dry_run
    /\ ~in_repo
    /\ auto_squash
    /\ pc = "done"
    /\ returned = 2
    /\ signals # << >>

\* C30: once the flag is set inside the loop, the run gets to "done" unless
\* a second signal arrives or the prompt of the mode in flight raises; and a
\* run that is done after exactly one signal, handled by _handle_interrupt,
\* has counted the iteration that was in flight at the signal, has run no
\* later one, and has called _do_squash if the squash guard allows it.
C30_InterruptLeadsToDone ==
    /\ (interrupted /\ pc \in InTry) ~>
          (pc = "done" \/ Len(signals) >= 2 \/ pc = "raised")
    /\ []((/\ pc = "done"
           /\ Len(signals) = 1
           /\ signals[1].handler = "_handle_interrupt") =>
          (/\ interrupted
           /\ iteration = signals[1].iteration
                            + (IF signals[1].pc = "loop" THEN 0 ELSE 1)
           /\ returned = iteration
           /\ handler = original_handler
           /\ SquashAllowed => squash_invoked))

\* One signal arrived during the commit step of the first iteration of an
\* unlimited run; the run is done with that iteration counted and squashed.
C30_Witness ==
    /\ pc = "done"
    /\ max_iterations = None
    /\ Len(signals) = 1
    /\ signals[1].pc = "commit"
    /\ signals[1].iteration = 0
    /\ iteration = 1
    /\ squash_invoked
    /\ Len(log) = 1

\* The preset file is one the claim calls missing or invalid.
InvalidDoc ==
    \/ ~doc.exists
    \/ ~doc.mapping
    \/ ~doc.has_name
    \/ ~doc.has_modes
    \/ Len(doc.modes) = 0
    \/ \E i \in 1..Len(doc.modes) :
          ~doc.modes[i].has_name \/ doc.modes[i].prompt = {}

\* C23: with a missing or invalid preset file the run command ends with an
\* error and the loop is never entered (no iteration, no agent call); and
\* whenever the command has got past loading, the preset has at least one
\* mode, as many as the file lists, and every call was made in one of them.
C23_InvalidPresetRejected ==
    /\ InvalidDoc =>
          (/\ pc \in {"cli_run", "cli_error"}
           /\ calls = << >>
           /\ iteration = 0
           /\ original_handler = "unset")
    /\ pc \notin {"cli_run", "cli_error"} =>
          (/\ ~InvalidDoc
           /\ nmodes >= 1
           /\ nmodes = Len(doc.modes)
           /\ Len(modes) = nmodes
           /\ \A k \in 1..Len(calls) : calls[k].mode \in 0..(nmodes - 1))

\* A preset file with a name and an empty modes list was rejected.
C23_Witness ==
    /\ pc = "cli_error"
    /\ doc.exists
    /\ doc.mapping
    /\ doc.has_name
    /\ doc.has_modes
    /\ doc.modes = << >>

RStrip(m) ==
    LET text == (1..Len(m)) \ LineBreaks(m)
    IN  IF text = {} THEN << >> ELSE SubSeq(m, 1, Greatest(text))

RECURSIVE JoinBlank(_)
\* "\n\n".join(parts)
JoinBlank(parts) ==
    IF parts = << >> THEN << >>
    ELSE IF Len(parts) = 1 THEN parts[1]
    ELSE parts[1] \o <<NL, NL>> \o JoinBlank(Tail(parts))

\* The prompt the tests of Preset.get_full_prompt expect: the prefix
\* without its trailing white space, the stripped mode prompt, the stripped
\* suffix, each part only when there is one, with a blank line between.
BuildModePrompt(prefix, body, suffix) ==
    JoinBlank((IF prefix = {} THEN << >>
               ELSE <<RStrip(CHOOSE x \in prefix : TRUE)>>)
              \o <<Strip(body)>>
              \o (IF suffix = {} THEN << >>
                  ELSE <<Strip(CHOOSE x \in suffix : TRUE)>>))

\* C25: the prompt of every run_opencode call is the prompt built from the
\* file's prefix, the prompt of the call's mode and the file's suffix.
C25_PromptIsBuilt ==
    \A k \in 1..Len(calls) :
        calls[k].prompt =
            BuildModePrompt(doc.prompt_prefix,
                            CHOOSE q \in doc.modes[calls[k].mode + 1].prompt :
                                TRUE,
                            doc.prompt_suffix)

\* The places of a token in a text.
Places(text, token) == {i \in 1..Len(text) : text[i] = token}

\* The text has the section: the heading on a line of its own, then the
\* body on the next lines, then an empty line.
HasSection(text, heading, body) ==
    \E i \in Places(text, heading) :
        /\ i > 1
        /\ text[i - 1] = NL
        /\ i + Len(body) + 3 <= Len(text)
        /\ SubSeq(text, i + 1, i + Len(body) + 3)
               = <<NL>> \o body \o <<NL, NL>>

\* C26: the built prompt has the "Review scope:" section, with the trimmed
\* check prompt, exactly when the check prompt is not empty, and the
\* "Before acting, filter your feedback:" section, with the trimmed filter
\* prompt, exactly when the filter prompt is not empty, whatever the other
\* fields of the configuration are.
C26_SectionsToggle ==
    pc = "review_built" =>
        /\ Places(review_prompt, "**Review scope:**") # {}
              <=> config.check_prompt # << >>
        /\ config.check_prompt # << >> =>
              HasSection(review_prompt, "**Review scope:**",
                         Strip(config.check_prompt))
        /\ Places(review_prompt, "**Before acting, filter your feedback:**")
              # {} <=> config.filter_prompt # << >>
        /\ config.filter_prompt # << >> =>
              HasSection(review_prompt,
                         "**Before acting, filter your feedback:**",
                         Strip(config.filter_prompt))

\* A prompt was built with the filter section and without the review scope
\* section, for a configuration with globs.
C26_Witness ==
    /\ pc = "review_built"
    /\ config.check_prompt = << >>
    /\ config.filter_prompt = <<NL, "Check.", NL>>
    /\ config.scope_globs = {<<"*.md", "docs/**">>}
    /\ Places(review_prompt, "**Review scope:**") = {}
    /\ Places(review_prompt, "**Before acting, filter your feedback:**") # {}

\* C27: the built prompt has a "Files in scope:" heading exactly when the
\* configuration has a list of globs that is not empty, and then every glob
\* of the list is in the prompt.
C27_FilesInScope ==
    pc = "review_built" =>
        LET globs == IF config.scope_globs = {} THEN << >>
                     ELSE CHOOSE g \in config.scope_globs : TRUE
        IN  /\ Places(review_prompt, "**Files in scope:**") # {}
                  <=> globs # << >>
            /\ \A i \in 1..Len(globs) : Places(review_prompt, globs[i]) # {}

\* The fix prompt of the configuration counts as set.
FixIsSet == \E t \in config.fix_prompt : t # << >>

\* C28 as stated: the prompt has the "Fix:" heading once; under it is the
\* configured fix prompt as it is written in the configuration when one is
\* set, and the default instruction otherwise; the default instruction is
\* not in the prompt when a fix prompt is set.
C28_FixSectionVerbatim ==
    pc = "review_built" =>
        /\ Cardinality(Places(review_prompt, "**Fix:**")) = 1
        /\ HasSection(review_prompt, "**Fix:**",
                      IF FixIsSet THEN CHOOSE t \in config.fix_prompt : TRUE
                      ELSE <<DefaultFix>>)
        /\ FixIsSet => Places(review_prompt, DefaultFix) = {}

\* C28, amended: the prompt has the "Fix:" heading once; under it is the
\* configured fix prompt without the white space around it when one is set,
\* and the default instruction otherwise; the default instruction is not in
\* the prompt when a fix prompt is set.
C28_FixSectionTrimmed ==
    pc = "review_built" =>
        /\ Cardinality(Places(review_prompt, "**Fix:**")) = 1
        /\ HasSection(review_prompt, "**Fix:**",
                      IF FixIsSet
                      THEN Strip(CHOOSE t \in config.fix_prompt : TRUE)
                      ELSE <<DefaultFix>>)
        /\ FixIsSet => Places(review_prompt, DefaultFix) = {}

\* A prompt was built for a fix prompt with white space in front of it.
C28_Witness ==
    /\ pc = "review_built"
    /\ config.fix_prompt = {<<NL, NL, "Fix all.">>}
    /\ HasSection(review_prompt, "**Fix:**", <<"Fix all.">>)
    /\ Places(review_prompt, DefaultFix) = {}

\* C31: a run with a limit of N >= 1 iterations that no signal reaches and
\* whose prompts format ends in "done" after exactly N iterations and N
\* agent calls, and never counts more than N; a run without a limit that no
\* signal reaches never gets past its loop.
C31_LimitTerminates ==
    /\ (max_iterations \in 1..MaxLimit /\ pc = "idle") ~>
          (\/ /\ pc = "done"
              /\ iteration = max_iterations
              /\ returned = max_iterations
              /\ Len(calls) = max_iterations
           \/ signals # << >>
           \/ pc = "raised")
    /\ []((max_iterations \in 1..MaxLimit /\ signals = << >>) =>
             (/\ iteration <= max_iterations
              /\ pc \in AfterLoop => iteration = max_iterations))
    /\ []((max_iterations = None /\ signals = << >>) =>
             pc \in {"idle", "raised"} \cup InTry)

\* A run limited to two iterations, outside a dry run and without a signal,
\* is done after two iterations.
C31_Witness ==
    /\ pc = "done"
    /\ ~dry_run
    /\ max_iterations = 2
    /\ iteration = 2
    /\ Len(calls) = 2
    /\ signals = << >>

\* C32: outside a dry run the commit step commits the uncommitted changes
\* under the template message of the iteration whatever the agent call
\* returned, and does so before the iteration is counted: an iteration at
\* its return has a clean tree, and its counter still has the value that
\* numbered the commit.
C32_CommitIgnoresResult ==
    /\ [][(pc = "commit" /\ pc' = "return" /\ ~dry_run /\ dirty) =>
             (/\ log' = Append(log, Format(commit_message_template,
                                            ModeName(mode_idx),
                                            iteration + 1))
              /\ head' # head
              /\ ~dirty'
              /\ iteration' = iteration)]_vars
    /\ []((pc = "return" /\ ~dry_run) =>
             (/\ ~dirty
              /\ head_tree = work_tree
              /\ iteration = calls[Len(calls)].n - 1))

\* The agent of the first iteration edited a file and exited with an error;
\* the edit was committed as iteration 1 and the iteration is not counted
\* yet.
C32_Witness ==
    /\ pc = "return"
    /\ ~success
    /\ iteration = 0
    /\ calls[1].outcome = "exit_nonzero"
    /\ calls[1].eff = "edit"
    /\ log = <<Format(commit_message_template, ModeName(0), 1)>>
    /\ ~dirty

\* C35: commit_changes on a clean tree returns False and leaves the
\* repository as it is; on a tree with changes it returns True, and the
\* commit step that calls it adds exactly one commit, with the message it
\* was given and the whole working tree in it, and leaves the tree clean.
C35_CommitChanges ==
    [][(pc = "commit" /\ pc' = "return" /\ ~dry_run) =>
          LET msg == IterationMessage(mode_idx, iteration + 1)
              c == commit_changes(Repository, msg)
          IN  IF dirty
              THEN /\ c.returned
                   /\ created' = created + 1
                   /\ head' = created'
                   /\ log' = Append(log, msg)
                   /\ head_tree' = work_tree
                   /\ work_tree' = work_tree
                   /\ ~dirty'
              ELSE /\ ~c.returned
                   /\ c.repo = Repository
                   /\ UNCHANGED repo]_vars

\* A commit step has committed the edit of an agent that succeeded: one
\* commit, holding the edit, and a clean tree.
C35_Witness ==
    /\ pc = "return"
    /\ ~dry_run
    /\ Len(calls) = 1
    /\ calls[1].eff = "edit"
    /\ calls[1].ok
    /\ Len(log) = 1
    /\ created = 1
    /\ head = 1
    /\ head_tree = 1
    /\ work_tree = 1
    /\ ~dirty

\* C37: no run is ended by a signal between the soft reset of the squash
\* and its commit: a run that a signal ended after _do_squash was called is
\* not left at the start revision with the changes uncommitted.
C37_SquashNotInterrupted ==
    (pc \in {"killed", "exited"} /\ squash_invoked) =>
        ~(head = start_commit /\ dirty /\ head_tree # work_tree)

\* The lines that open the sections of a review prompt, in the order the
\* spec gives them.
SectionOrder ==
    <<"Task: ",
      "If there are unrelated modified files, ignore them--do not include them in your review or commit.",
      "**Review scope:**",
      "**Before acting, filter your feedback:**",
      "**Fix:**",
      "**Files in scope:**",
      "**Commit:**">>

\* C36: in a built prompt every section opening occurs at most once and
\* they occur in the fixed order; the prompt starts with the task line and
\* the description, and the task line, the guidance, "Fix:" and "Commit:"
\* are there for every configuration; the prompt is the one value the
\* function has for the description and the configuration.
C36_SectionOrder ==
    pc = "review_built" =>
        /\ \A a \in 1..Len(SectionOrder) :
              Cardinality(Places(review_prompt, SectionOrder[a])) <= 1
        /\ \A a \in 1..Len(SectionOrder) : \A b \in (a + 1)..Len(SectionOrder) :
              \A i \in Places(review_prompt, SectionOrder[a]) :
                 \A j \in Places(review_prompt, SectionOrder[b]) : i < j
        /\ \A a \in {1, 2, 5, 7} : Places(review_prompt, SectionOrder[a]) # {}
        /\ SubSeq(review_prompt, 1, 2) = <<"Task: ", Description>>
        /\ review_prompt = build_review_prompt(Description, config)

\* A prompt was built with both optional sections: review scope, filter,
\* fix and commit follow one another.
C36_Witness ==
    /\ pc = "review_built"
    /\ config.check_prompt = <<"Check.">>
    /\ config.filter_prompt = <<"Check.">>
    /\ config.fix_prompt = {<<"Fix all.">>}
    /\ \E i, j, k, l \in 1..Len(review_prompt) :
          /\ i < j
          /\ j < k
          /\ k < l
          /\ review_prompt[i] = "**Review scope:**"
          /\ review_prompt[j] = "**Before acting, filter your feedback:**"
          /\ review_prompt[k] = "**Fix:**"
          /\ review_prompt[l] = "**Commit:**"

\* The model the tests of run_opencode expect when the caller gives none.
DEFAULT_MODEL == "DEFAULT_MODEL"

\* C33: every command run_opencode hands to subprocess.run has the option
\* -m followed by a model: the caller's, or DEFAULT_MODEL when the caller
\* gave None.
C33_ModelAlwaysPassed ==
    pc \in {"runner_returned", "runner_raised"} /\ ~dry_run =>
        /\ cmd.program = <<"opencode", "run">>
        /\ cmd.options =
              <<"-m", IF settings_model = {} THEN DEFAULT_MODEL
                      ELSE CHOOSE m \in settings_model : TRUE>>

\* C34: a call of run_opencode in which subprocess.run raised
\* KeyboardInterrupt has not returned: the exception has left it and no
\* result was produced; every False that run_opencode returned stands for
\* a process that exited non-zero or an executable that was not found.
C34_InterruptPropagates ==
    /\ pc = "runner_raised" <=>
          (calls # << >> /\ calls[1].outcome = "keyboard_interrupt")
    /\ pc = "runner_raised" => success
    /\ (pc = "runner_returned" /\ ~success) =>
          calls[1].outcome \in {"exit_nonzero", "not_found"}

\* The agent had edited a file when the KeyboardInterrupt came; the
\* exception left run_opencode.
C34_Witness ==
    /\ pc = "runner_raised"
    /\ handler = "default_int_handler"
    /\ calls[1].outcome = "keyboard_interrupt"
    /\ calls[1].eff = "edit"
    /\ cmd.program = <<"opencode", "run">>
    /\ dirty

\* C38: when there is no commit after the base revision, or the base
\* revision is unknown, squash_commits leaves the repository as it is and
\* the command ends with "Squash failed"; the repository changes only in a
\* call that goes on to its commit and returns True.
C38_NoCommitsNoChange ==
    /\ [][(pc = "cli_squash_commits" /\ CommitsSince(since) = << >>) =>
             (/\ UNCHANGED <<head, created, log, dirty, head_tree, work_tree>>
              /\ pc' = "cli_error")]_vars
    /\ [][<<head, created, log, dirty, head_tree, work_tree>>'
             # <<head, created, log, dirty, head_tree, work_tree>> =>
             pc' \in {"cli_commit", "cli_done"}]_vars
    /\ [](pc = "cli_error" =>
             (/\ CommitsSince(since) = << >>
              /\ head = Len(log)
              /\ created = Len(log)
              /\ head_tree = Len(log)))

\* squash_commits returned False for a base revision that is the head of a
\* history of two commits; the clean tree is as it was.
C38_Witness ==
    /\ pc = "cli_error"
    /\ Len(log) = 2
    /\ since = 2
    /\ head = 2
    /\ ~dirty

====
